---- MODULE Spec2Model ----
(***************************************************************************)
(* BrandLens: the report endpoint of server.ts and the App component of    *)
(* src/App.tsx, as state machines.                                         *)
(*                                                                         *)
(*   ServerSpec  the POST /api/report-logo handler under arbitrary request *)
(*               bodies, environments and restarts                         *)
(*   Spec        the App component: file selection, camera, analysis and   *)
(*               report submission, with the browser's asynchronous        *)
(*               callbacks interleaved and the endpoint answering          *)
(*   FairSpec    Spec with every pending browser callback eventually run   *)
(*   TierSpec    the score-dependent styling of the rendered report        *)
(***************************************************************************)
EXTENDS Integers, Sequences, FiniteSets

(* ---------------------------------------------------------------------- *)
(* Bounds                                                                  *)
(* ---------------------------------------------------------------------- *)
\* requests answered by the server in one behaviour of ServerSpec
MaxRequests == 3
\* File objects created (picked, dropped or captured)
MaxFiles == 2
\* clicks on Analyze Logo
MaxAnalyses == 2
\* clicks on Report Suspicious Logo
MaxReports == 2
\* calls of getUserMedia
MaxCameraRequests == 2
\* toBlob callbacks pending at once
MaxBlobs == 1

VARIABLES
    \* server.ts
    env,          \* process.env: the three FIREBASE_* variables
    firebaseApp,  \* server.ts:12, "null" or "app"
    nextDocId,    \* auto-generated ids handed out by collection.doc()
    docs,         \* documents of the suspicious_logos collection, in write order
    responses,    \* HTTP responses sent so far, in order
    \* App.tsx, React state (lines 16-23)
    mounted,
    selectedFile,
    previewUrl,
    isAnalyzing,
    analysis,
    error,
    isReporting,
    reportSuccess,
    isCameraActive,
    \* App.tsx, browser objects the handlers hold on to
    srcObject,       \* videoRef.current.srcObject of the rendered <video>, 0 = null
    liveStreams,     \* media streams acquired whose tracks have not been stopped
    nextStream,      \* streams are numbered as getUserMedia is called
    cameraRequests,  \* getUserMedia promises pending
    blobCallbacks,   \* canvas.toBlob callbacks pending: the file to build, 0 = null blob
    nextFile,        \* File objects are numbered as they are created
    readers,         \* FileReaders of analyzeLogo pending
    inferences,      \* generateContent calls in flight
    nextReq,         \* analyze actions are numbered as they start
    inferenceLog,    \* analyze actions that issued an inference request, in order
    reportReaders,   \* FileReaders of reportLogo pending
    posts,           \* fetch('/api/report-logo') calls in flight
    nextReport,      \* report actions are numbered as they start
    postLog,         \* bodies POSTed by the App, in order
    \* App.tsx, the rendered report
    similarityPercentage,
    rendered

serverVars == <<env, firebaseApp, nextDocId, docs, responses>>
stateVars == <<mounted, selectedFile, previewUrl, isAnalyzing, analysis, error,
               isReporting, reportSuccess, isCameraActive>>
cameraVars == <<srcObject, liveStreams, nextStream, cameraRequests, blobCallbacks>>
analyzeVars == <<readers, inferences, nextReq, inferenceLog>>
reportVars == <<reportReaders, posts, nextReport, postLog>>
tierVars == <<similarityPercentage, rendered>>
appVars == <<stateVars, cameraVars, nextFile, analyzeVars, reportVars>>
vars == <<serverVars, appVars, tierVars>>

(* ---------------------------------------------------------------------- *)
(* JavaScript values that the code tests for truthiness                    *)
(* ---------------------------------------------------------------------- *)
Undefined == [kind |-> "undefined", v |-> 0]
Null == [kind |-> "null", v |-> 0]
Str(s) == [kind |-> "string", v |-> s]
Obj(n) == [kind |-> "object", v |-> n]
\* reader.result of readAsDataURL: "data:<type>;base64,<payload>", never empty
DataUrl(n) == [kind |-> "dataurl", v |-> n]

Truthy(x) ==
    \/ x.kind \in {"object", "dataurl"}
    \/ x.kind = "string" /\ x.v # ""

(* ---------------------------------------------------------------------- *)
(* server.ts                                                               *)
(* ---------------------------------------------------------------------- *)
EnvNames == {"FIREBASE_PROJECT_ID", "FIREBASE_CLIENT_EMAIL", "FIREBASE_PRIVATE_KEY"}
\* An environment variable is unset, set to the empty string, or set.
EnvValues == {Undefined, Str(""), Str("value\\n")}

\* process.env.FIREBASE_PRIVATE_KEY?.replace(/\\n/g, '\n'): undefined stays
\* undefined, an escaped line break becomes a line break.
ReplaceNewlines(x) ==
    IF x.kind = "undefined" THEN x
    ELSE IF x.v = "value\\n" THEN Str("value\n")
    ELSE x

\* The credential check of getFirebaseDb (line 20), negated; first a slip of
\* it that forgets the private key.
CredentialsConfiguredNoKey(e) ==
    /\ Truthy(e["FIREBASE_PROJECT_ID"])
    /\ Truthy(e["FIREBASE_CLIENT_EMAIL"])

CredentialsConfigured(e) ==
    /\ Truthy(e["FIREBASE_PROJECT_ID"])
    /\ Truthy(e["FIREBASE_CLIENT_EMAIL"])
    /\ Truthy(ReplaceNewlines(e["FIREBASE_PRIVATE_KEY"]))

\* getFirebaseDb: the value of firebaseApp after the call, and whether it threw.
getFirebaseDb(app, e) ==
    IF app = "null"
    THEN IF ~CredentialsConfigured(e)
         THEN [threw |-> TRUE, app |-> "null",
               message |-> "Firebase credentials are not fully configured in environment variables."]
         ELSE [threw |-> FALSE, app |-> "app", message |-> ""]
    ELSE [threw |-> FALSE, app |-> app, message |-> ""]

\* Request bodies: each field is undefined, a falsy value, or a value.
AnalysisValues == {Undefined, Null, Obj(1)}
ImageValues == {Undefined, Str(""), DataUrl(1)}
MimeValues == {Undefined, Str("image/png")}
Bodies == [analysis : AnalysisValues, imageBase64 : ImageValues, mimeType : MimeValues]

\* Outcome of reportRef.set(...): resolves, or rejects with an error whose
\* message is non-empty or empty.
WriteOutcomes == {"ok", "throws", "throwsNoMessage"}

\* error.message || 'Failed to report logo' (line 63)
ErrorBody(message) == IF message = "" THEN "Failed to report logo" ELSE message

\* The document passed to reportRef.set (lines 52-58); first a slip of it
\* that stores the report as already reviewed.
ReportDocReviewed(id, body) ==
    [id |-> id,
     analysis |-> body.analysis,
     imageBase64 |-> body.imageBase64,
     mimeType |-> body.mimeType,
     reportedAt |-> "serverTimestamp",
     status |-> "reviewed"]

ReportDoc(id, body) ==
    [id |-> id,
     analysis |-> body.analysis,
     imageBase64 |-> body.imageBase64,
     mimeType |-> body.mimeType,
     reportedAt |-> "serverTimestamp",
     status |-> "pending_review"]

\* !analysis || !imageBase64 (line 45), a plausible slip of it first.
MissingRequiredFieldsBothAbsent(body) == ~Truthy(body.analysis) /\ ~Truthy(body.imageBase64)

MissingRequiredFields(body) == ~Truthy(body.analysis) \/ ~Truthy(body.imageBase64)

\* The route handler (lines 41-65) run on one request against the server
\* state; write is the outcome of the store write if the handler reaches it.
\* A response is its status and body; a field the body lacks is FALSE, ""
\* or 0.
ReportLogoHandler(body, app, e, nid, ds, write) ==
    IF MissingRequiredFields(body)
    THEN [response |-> [status |-> 400, success |-> FALSE, error |-> "Missing required fields", reportId |-> 0],
          app |-> app, nextDocId |-> nid, docs |-> ds]
    ELSE LET db == getFirebaseDb(app, e) IN
         IF db.threw
         THEN [response |-> [status |-> 500, success |-> FALSE, error |-> ErrorBody(db.message), reportId |-> 0],
               app |-> db.app, nextDocId |-> nid, docs |-> ds]
         ELSE IF write = "ok"
         THEN [response |-> [status |-> 200, success |-> TRUE, error |-> "", reportId |-> nid],
               app |-> db.app, nextDocId |-> nid + 1,
               docs |-> Append(ds, ReportDoc(nid, body))]
         ELSE [response |-> [status |-> 500, success |-> FALSE,
                             error |-> ErrorBody(IF write = "throws" THEN "store write failed" ELSE ""),
                             reportId |-> 0],
               app |-> db.app, nextDocId |-> nid + 1, docs |-> ds]

(* ---------------------------------------------------------------------- *)
(* App.tsx: values                                                         *)
(* ---------------------------------------------------------------------- *)
NoFile == [id |-> 0, type |-> ""]
NoAnalysis == [req |-> 0, file |-> 0]

\* The state after useState's initial values (lines 16-25), nothing pending.
AppInit ==
    /\ mounted = TRUE
    /\ selectedFile = NoFile
    /\ previewUrl = 0
    /\ isAnalyzing = FALSE
    /\ analysis = NoAnalysis
    /\ error = "null"
    /\ isReporting = FALSE
    /\ reportSuccess = FALSE
    /\ isCameraActive = FALSE
    /\ srcObject = 0
    /\ liveStreams = {}
    /\ nextStream = 1
    /\ cameraRequests = 0
    /\ blobCallbacks = <<>>
    /\ nextFile = 1
    /\ readers = {}
    /\ inferences = {}
    /\ nextReq = 1
    /\ inferenceLog = <<>>
    /\ reportReaders = {}
    /\ posts = {}
    /\ nextReport = 1
    /\ postLog = <<>>

\* No report is on screen.
TierIdle ==
    /\ similarityPercentage = 0
    /\ rendered = [scoreText |-> "", box |-> "", icon |-> "", heading |-> "", body |-> ""]

(* ---------------------------------------------------------------------- *)
(* ServerSpec                                                              *)
(* ---------------------------------------------------------------------- *)
ServerInit ==
    /\ env \in [EnvNames -> EnvValues]
    /\ firebaseApp = "null"
    /\ nextDocId = 1
    /\ docs = <<>>
    /\ responses = <<>>
    /\ AppInit
    /\ TierIdle

\* One HTTP client posts body to /api/report-logo and is answered.
PostReportLogo(body, write) ==
    /\ Len(responses) < MaxRequests
    /\ LET r == ReportLogoHandler(body, firebaseApp, env, nextDocId, docs, write) IN
       /\ responses' = Append(responses, r.response)
       /\ firebaseApp' = r.app
       /\ nextDocId' = r.nextDocId
       /\ docs' = r.docs
    /\ UNCHANGED <<env, appVars, tierVars>>

\* The server process is restarted (startServer, dotenv.config): the
\* environment is read afresh and the module-level firebaseApp is null again.
\* The store and what clients have already received are outside the process.
RestartServer(e) ==
    /\ Len(responses) < MaxRequests
    /\ e # env \/ firebaseApp # "null"
    /\ env' = e
    /\ firebaseApp' = "null"
    /\ UNCHANGED <<nextDocId, docs, responses, appVars, tierVars>>

ServerNext ==
    \/ \E body \in Bodies, write \in WriteOutcomes : PostReportLogo(body, write)
    \/ \E e \in [EnvNames -> EnvValues] : RestartServer(e)

ServerSpec == ServerInit /\ [][ServerNext]_vars

(* ---------------------------------------------------------------------- *)
(* App.tsx: the component                                                  *)
(* ---------------------------------------------------------------------- *)
\* A state setter called from a callback: React drops the update once the
\* component has unmounted.
St(cur, new) == IF mounted THEN new ELSE cur

\* videoRef.current: the <video> element exists only while the camera view
\* is rendered (lines 282-291).
VideoRendered == mounted /\ isCameraActive

\* stopCamera (lines 52-59), with refCurrent the truth of videoRef.current.
stopCamera(refCurrent) ==
    /\ IF refCurrent /\ srcObject # 0
       THEN /\ liveStreams' = liveStreams \ {srcObject}
            /\ srcObject' = 0
       ELSE UNCHANGED <<liveStreams, srcObject>>
    /\ isCameraActive' = St(isCameraActive, FALSE)

\* Open Camera / Retake (lines 324, 360): startCamera up to its await.
startCamera ==
    /\ mounted /\ ~isCameraActive
    /\ nextStream + cameraRequests <= MaxCameraRequests
    /\ cameraRequests' = cameraRequests + 1
    /\ UNCHANGED <<serverVars, stateVars, srcObject, liveStreams, nextStream,
                   blobCallbacks, nextFile, analyzeVars, reportVars, tierVars>>

\* getUserMedia resolves: startCamera from line 39 to line 46.
GetUserMediaResolves ==
    /\ cameraRequests > 0
    /\ cameraRequests' = cameraRequests - 1
    /\ nextStream' = nextStream + 1
    /\ liveStreams' = liveStreams \cup {nextStream}
    /\ srcObject' = IF VideoRendered THEN nextStream ELSE srcObject
    /\ isCameraActive' = St(isCameraActive, TRUE)
    /\ selectedFile' = St(selectedFile, NoFile)
    /\ previewUrl' = St(previewUrl, 0)
    /\ analysis' = St(analysis, NoAnalysis)
    /\ error' = St(error, "null")
    /\ UNCHANGED <<serverVars, mounted, isAnalyzing, isReporting, reportSuccess,
                   blobCallbacks, nextFile, analyzeVars, reportVars, tierVars>>

\* getUserMedia rejects: startCamera's catch (lines 47-49).
GetUserMediaRejects ==
    /\ cameraRequests > 0
    /\ cameraRequests' = cameraRequests - 1
    /\ error' = St(error, "Failed to access camera")
    /\ UNCHANGED <<serverVars, mounted, selectedFile, previewUrl, isAnalyzing, analysis,
                   isReporting, reportSuccess, isCameraActive, srcObject, liveStreams,
                   nextStream, blobCallbacks, nextFile, analyzeVars, reportVars, tierVars>>

\* The close button of the camera view (lines 292-296).
CloseCameraClick ==
    /\ mounted /\ isCameraActive
    /\ stopCamera(TRUE)
    /\ UNCHANGED <<serverVars, mounted, selectedFile, previewUrl, isAnalyzing, analysis,
                   error, isReporting, reportSuccess, nextStream, cameraRequests,
                   blobCallbacks, nextFile, analyzeVars, reportVars, tierVars>>

\* Take Photo (lines 302-306): capturePhoto up to the toBlob call. The canvas
\* takes the video's size; a video without a stream, or whose first frame has
\* not arrived (frameReady), is 0 by 0 and toBlob yields null.
capturePhoto(frameReady) ==
    /\ mounted /\ isCameraActive
    /\ Len(blobCallbacks) < MaxBlobs
    /\ IF srcObject # 0 /\ frameReady
       THEN /\ nextFile <= MaxFiles
            /\ blobCallbacks' = Append(blobCallbacks, nextFile)
            /\ nextFile' = nextFile + 1
       ELSE /\ blobCallbacks' = Append(blobCallbacks, 0)
            /\ UNCHANGED nextFile
    /\ UNCHANGED <<serverVars, stateVars, srcObject, liveStreams, nextStream,
                   cameraRequests, analyzeVars, reportVars, tierVars>>

\* The toBlob callback (lines 73-81).
ToBlobCallback ==
    /\ blobCallbacks # <<>>
    /\ blobCallbacks' = Tail(blobCallbacks)
    /\ IF Head(blobCallbacks) # 0
       THEN /\ selectedFile' = St(selectedFile, [id |-> Head(blobCallbacks), type |-> "image/jpeg"])
            /\ previewUrl' = St(previewUrl, Head(blobCallbacks))
            /\ stopCamera(VideoRendered)
       ELSE UNCHANGED <<selectedFile, previewUrl, isCameraActive, liveStreams, srcObject>>
    /\ UNCHANGED <<serverVars, mounted, isAnalyzing, analysis, error, isReporting,
                   reportSuccess, nextStream, cameraRequests, nextFile, analyzeVars,
                   reportVars, tierVars>>

\* The effect cleanup (lines 28-32). Whether React has already detached the
\* ref of the <video> when the cleanup runs depends on its version.
Unmount(refAttached) ==
    /\ mounted
    /\ mounted' = FALSE
    /\ IF VideoRendered /\ refAttached /\ srcObject # 0
       THEN /\ liveStreams' = liveStreams \ {srcObject}
            /\ srcObject' = 0
       ELSE UNCHANGED <<liveStreams, srcObject>>
    /\ UNCHANGED <<serverVars, selectedFile, previewUrl, isAnalyzing, analysis, error,
                   isReporting, reportSuccess, isCameraActive, nextStream, cameraRequests,
                   blobCallbacks, nextFile, analyzeVars, reportVars, tierVars>>

\* handleFileSelect (lines 86-96); the input is rendered while the camera
\* view is not (line 273), and accepts image/* (line 276).
handleFileSelect(hasFile) ==
    /\ mounted /\ ~isCameraActive
    /\ IF hasFile
       THEN /\ nextFile <= MaxFiles
            /\ selectedFile' = [id |-> nextFile, type |-> "image/png"]
            /\ previewUrl' = nextFile
            /\ analysis' = NoAnalysis
            /\ error' = "null"
            /\ reportSuccess' = FALSE
            /\ nextFile' = nextFile + 1
       ELSE UNCHANGED <<selectedFile, previewUrl, analysis, error, reportSuccess, nextFile>>
    /\ UNCHANGED <<serverVars, mounted, isAnalyzing, isReporting, isCameraActive,
                   cameraVars, analyzeVars, reportVars, tierVars>>

\* What a drop can carry: nothing, or one file of some type.
DroppedTypes == {"none", "image/png", "text/plain"}

\* file.type.startsWith('image/') (line 101)
IsImageType(t) == t \in {"image/png", "image/jpeg"}

\* handleDrop (lines 98-109); the drop zone is always rendered.
handleDrop(dropped) ==
    /\ mounted
    /\ IF dropped # "none" /\ IsImageType(dropped)
       THEN /\ nextFile <= MaxFiles
            /\ selectedFile' = [id |-> nextFile, type |-> dropped]
            /\ previewUrl' = nextFile
            /\ analysis' = NoAnalysis
            /\ error' = "null"
            /\ reportSuccess' = FALSE
            /\ nextFile' = nextFile + 1
       ELSE UNCHANGED <<selectedFile, previewUrl, analysis, error, reportSuccess, nextFile>>
    /\ UNCHANGED <<serverVars, mounted, isAnalyzing, isReporting, isCameraActive,
                   cameraVars, analyzeVars, reportVars, tierVars>>

\* disabled of the analyze button (line 388); first a slip of it that
\* forgets the request in progress.
AnalyzeDisabledIgnoringBusy == selectedFile = NoFile

AnalyzeDisabled == selectedFile = NoFile \/ isAnalyzing

\* Analyze Logo (line 387): analyzeLogo up to readAsDataURL (lines 111-119).
analyzeLogo ==
    /\ mounted /\ ~AnalyzeDisabled
    /\ nextReq <= MaxAnalyses
    /\ selectedFile # NoFile
    /\ isAnalyzing' = TRUE
    /\ error' = "null"
    /\ readers' = readers \cup {[req |-> nextReq, file |-> selectedFile]}
    /\ nextReq' = nextReq + 1
    /\ UNCHANGED <<serverVars, mounted, selectedFile, previewUrl, analysis, isReporting,
                   reportSuccess, isCameraActive, cameraVars, nextFile, inferences,
                   inferenceLog, reportVars, tierVars>>

\* reader.onload of analyzeLogo up to the await of generateContent
\* (lines 121-163): the request carries the file the click captured.
ReaderLoad(r) ==
    /\ r \in readers
    /\ readers' = readers \ {r}
    /\ inferences' = inferences \cup {r}
    /\ inferenceLog' = Append(inferenceLog, r.req)
    /\ UNCHANGED <<serverVars, stateVars, cameraVars, nextFile, nextReq, reportVars, tierVars>>

\* reader.onerror of analyzeLogo (lines 180-183); first a slip of it that
\* leaves the spinner on.
ReaderErrorStillAnalyzing(r) ==
    /\ r \in readers
    /\ readers' = readers \ {r}
    /\ error' = St(error, "Failed to read file")
    /\ UNCHANGED <<serverVars, mounted, selectedFile, previewUrl, isAnalyzing, analysis,
                   isReporting, reportSuccess, isCameraActive, cameraVars, nextFile,
                   inferences, nextReq, inferenceLog, reportVars, tierVars>>

ReaderError(r) ==
    /\ r \in readers
    /\ readers' = readers \ {r}
    /\ error' = St(error, "Failed to read file")
    /\ isAnalyzing' = St(isAnalyzing, FALSE)
    /\ UNCHANGED <<serverVars, mounted, selectedFile, previewUrl, analysis, isReporting,
                   reportSuccess, isCameraActive, cameraVars, nextFile, inferences, nextReq,
                   inferenceLog, reportVars, tierVars>>

\* How generateContent ends: a JSON text, an empty text, a text that is not
\* JSON, or a rejection.
InferenceOutcomes == {"json", "empty", "notJson", "throws"}

\* err.message || 'Failed to analyze logo' (line 174) for each failure.
AnalyzeErrorMessage(outcome) ==
    IF outcome = "empty" THEN "No response from Gemini API"
    ELSE IF outcome = "notJson" THEN "Unexpected token"
    ELSE "Failed to analyze logo"

\* The rest of reader.onload once generateContent settles (lines 165-177).
InferenceSettles(q, outcome) ==
    /\ q \in inferences
    /\ inferences' = inferences \ {q}
    /\ IF outcome = "json"
       THEN /\ analysis' = St(analysis, [req |-> q.req, file |-> q.file.id])
            /\ UNCHANGED error
       ELSE /\ error' = St(error, AnalyzeErrorMessage(outcome))
            /\ UNCHANGED analysis
    /\ isAnalyzing' = St(isAnalyzing, FALSE)
    /\ UNCHANGED <<serverVars, mounted, selectedFile, previewUrl, isReporting,
                   reportSuccess, isCameraActive, cameraVars, nextFile, readers, nextReq,
                   inferenceLog, reportVars, tierVars>>

\* disabled of the report button (line 500); first a slip of it that forgets
\* the earlier success.
ReportDisabledIgnoringSuccess == isReporting

ReportDisabled == isReporting \/ reportSuccess

\* Report Suspicious Logo (line 499), rendered with the report (line 418):
\* reportLogo up to readAsDataURL (lines 190-199).
reportLogo ==
    /\ mounted /\ analysis # NoAnalysis /\ ~ReportDisabled
    /\ nextReport <= MaxReports
    /\ IF selectedFile = NoFile
       THEN UNCHANGED <<isReporting, error, reportReaders, nextReport>>
       ELSE /\ isReporting' = TRUE
            /\ error' = "null"
            /\ reportReaders' = reportReaders \cup
                   {[id |-> nextReport, analysis |-> analysis, file |-> selectedFile]}
            /\ nextReport' = nextReport + 1
    /\ UNCHANGED <<serverVars, mounted, selectedFile, previewUrl, isAnalyzing, analysis,
                   reportSuccess, isCameraActive, cameraVars, nextFile, analyzeVars,
                   posts, postLog, tierVars>>

\* The JSON body of the fetch (lines 209-213).
ReportBody(r) ==
    [analysis |-> Obj(r.analysis.req),
     imageBase64 |-> DataUrl(r.file.id),
     mimeType |-> Str(r.file.type)]

\* reader.onload of reportLogo up to the await of fetch (lines 201-214).
ReportReaderLoad(r) ==
    /\ r \in reportReaders
    /\ reportReaders' = reportReaders \ {r}
    /\ posts' = posts \cup {r}
    /\ postLog' = Append(postLog, [analysis |-> r.analysis, file |-> r.file.id])
    /\ UNCHANGED <<serverVars, stateVars, cameraVars, nextFile, analyzeVars, nextReport, tierVars>>

\* reader.onerror of reportLogo (lines 225-227): the throw leaves the event
\* handler; the try of line 196 has long been left.
ReportReaderError(r) ==
    /\ r \in reportReaders
    /\ reportReaders' = reportReaders \ {r}
    /\ UNCHANGED <<serverVars, stateVars, cameraVars, nextFile, analyzeVars, posts,
                   nextReport, postLog, tierVars>>

\* response.ok (line 216)
ResponseOk(response) == response.status >= 200 /\ response.status <= 299

\* The fetch rejects (network failure): the rejection leaves the async
\* onload, which nothing awaits.
FetchRejects(p) ==
    /\ p \in posts
    /\ posts' = posts \ {p}
    /\ UNCHANGED <<serverVars, stateVars, cameraVars, nextFile, analyzeVars,
                   reportReaders, nextReport, postLog, tierVars>>

\* The endpoint answers the fetch and onload continues (lines 216-222); on
\* a response that is not ok the throw of line 218 leaves the async onload.
FetchSettles(p, write) ==
    /\ p \in posts
    /\ posts' = posts \ {p}
    /\ LET r == ReportLogoHandler(ReportBody(p), firebaseApp, env, nextDocId, docs, write) IN
       /\ responses' = Append(responses, r.response)
       /\ firebaseApp' = r.app
       /\ nextDocId' = r.nextDocId
       /\ docs' = r.docs
       /\ IF ResponseOk(r.response)
          THEN /\ reportSuccess' = St(reportSuccess, TRUE)
               /\ isReporting' = St(isReporting, FALSE)
          ELSE UNCHANGED <<reportSuccess, isReporting>>
    /\ UNCHANGED <<env, mounted, selectedFile, previewUrl, isAnalyzing, analysis, error,
                   isCameraActive, cameraVars, nextFile, analyzeVars, reportReaders,
                   nextReport, postLog, tierVars>>

\* Environments the App's server runs in.
EnvConfigured == [n \in EnvNames |-> Str("value\\n")]
EnvWithoutKey == [EnvConfigured EXCEPT !["FIREBASE_PRIVATE_KEY"] = Undefined]

Init ==
    /\ env \in {EnvConfigured, EnvWithoutKey}
    /\ firebaseApp = "null"
    /\ nextDocId = 1
    /\ docs = <<>>
    /\ responses = <<>>
    /\ AppInit
    /\ TierIdle

Next ==
    \/ startCamera
    \/ GetUserMediaResolves
    \/ GetUserMediaRejects
    \/ CloseCameraClick
    \/ \E frameReady \in BOOLEAN : capturePhoto(frameReady)
    \/ ToBlobCallback
    \/ \E refAttached \in BOOLEAN : Unmount(refAttached)
    \/ \E hasFile \in BOOLEAN : handleFileSelect(hasFile)
    \/ \E dropped \in DroppedTypes : handleDrop(dropped)
    \/ analyzeLogo
    \/ \E r \in readers : ReaderLoad(r)
    \/ \E r \in readers : ReaderError(r)
    \/ \E q \in inferences, outcome \in InferenceOutcomes : InferenceSettles(q, outcome)
    \/ reportLogo
    \/ \E r \in reportReaders : ReportReaderLoad(r)
    \/ \E r \in reportReaders : ReportReaderError(r)
    \/ \E p \in posts : FetchRejects(p)
    \/ \E p \in posts, write \in WriteOutcomes : FetchSettles(p, write)

Spec == Init /\ [][Next]_vars

\* Every pending browser callback is eventually run: a FileReader fires
\* load or error, a promise settles, a queued toBlob callback is called.
Fairness ==
    /\ WF_vars(GetUserMediaResolves \/ GetUserMediaRejects)
    /\ WF_vars(ToBlobCallback)
    /\ WF_vars(\E r \in readers : ReaderLoad(r) \/ ReaderError(r))
    /\ WF_vars(\E q \in inferences, outcome \in InferenceOutcomes : InferenceSettles(q, outcome))
    /\ WF_vars(\E r \in reportReaders : ReportReaderLoad(r) \/ ReportReaderError(r))
    /\ WF_vars(\E p \in posts : FetchRejects(p) \/ \E write \in WriteOutcomes : FetchSettles(p, write))

FairSpec == Init /\ [][Next]_vars /\ Fairness

(* ---------------------------------------------------------------------- *)
(* App.tsx: the score-dependent styling of the report (lines 438-485)      *)
(* ---------------------------------------------------------------------- *)
\* The prompt asks for a similarity percentage of 0-100 (line 140).
MaxScore == 100

\* The score text (lines 438-441).
ScoreTextClass(s) ==
    IF s >= 90 THEN "text-emerald-600"
    ELSE IF s >= 70 THEN "text-amber-600" ELSE "text-red-600"

\* The assessment box (lines 465-468).
BoxClass(s) ==
    IF s >= 90 THEN "bg-emerald-50 border-emerald-100"
    ELSE IF s >= 70 THEN "bg-amber-50 border-amber-100" ELSE "bg-red-50 border-red-100"

\* The icon (lines 470-476).
AssessmentIcon(s) ==
    IF s >= 90 THEN "CheckCircle text-emerald-600"
    ELSE IF s >= 70 THEN "AlertTriangle text-amber-600" ELSE "ShieldAlert text-red-600"

\* The heading (lines 478-481); first a slip of it that excludes 90 itself.
HeadingClassExclusive(s) ==
    IF s > 90 THEN "text-emerald-900"
    ELSE IF s >= 70 THEN "text-amber-900" ELSE "text-red-900"

HeadingClass(s) ==
    IF s >= 90 THEN "text-emerald-900"
    ELSE IF s >= 70 THEN "text-amber-900" ELSE "text-red-900"

\* The body text (lines 482-485).
BodyClass(s) ==
    IF s >= 90 THEN "text-emerald-700"
    ELSE IF s >= 70 THEN "text-amber-700" ELSE "text-red-700"

NotRendered == [scoreText |-> "", box |-> "", icon |-> "", heading |-> "", body |-> ""]

TierInit ==
    /\ env = EnvConfigured
    /\ firebaseApp = "null"
    /\ nextDocId = 1
    /\ docs = <<>>
    /\ responses = <<>>
    /\ AppInit
    /\ similarityPercentage \in 0..MaxScore
    /\ rendered = NotRendered

\* The report is rendered for the analysis held (lines 418-491).
RenderReport ==
    /\ rendered = NotRendered
    /\ rendered' = [scoreText |-> ScoreTextClass(similarityPercentage),
                    box |-> BoxClass(similarityPercentage),
                    icon |-> AssessmentIcon(similarityPercentage),
                    heading |-> HeadingClass(similarityPercentage),
                    body |-> BodyClass(similarityPercentage)]
    /\ UNCHANGED <<serverVars, appVars, similarityPercentage>>

\* setAnalysis(result) with another score (line 171): the report is rendered anew.
SetAnalysisScore(s) ==
    /\ rendered # NotRendered
    /\ s # similarityPercentage
    /\ similarityPercentage' = s
    /\ rendered' = NotRendered
    /\ UNCHANGED <<serverVars, appVars>>

TierNext ==
    \/ RenderReport
    \/ \E s \in 0..MaxScore : SetAnalysisScore(s)

TierSpec == TierInit /\ [][TierNext]_vars

(* ---------------------------------------------------------------------- *)
(* Claims about the endpoint                                               *)
(* ---------------------------------------------------------------------- *)
Last(s) == s[Len(s)]

\* A credential is present when its variable is set to a non-empty string.
CredentialPresent(n) == env[n].kind = "string" /\ env[n].v # ""
AllCredentialsPresent == \A n \in EnvNames : CredentialPresent(n)

RECURSIVE CountStatus(_, _)
CountStatus(rs, st) ==
    IF rs = <<>> THEN 0
    ELSE (IF Last(rs).status = st THEN 1 ELSE 0) + CountStatus(SubSeq(rs, 1, Len(rs) - 1), st)

\* C1: a request whose body lacks analysis or lacks imageBase64 (absent or
\* falsy), whatever mimeType is and whatever the credentials are, is answered
\* 400 with an error body; the request writes no document and does not
\* initialise Firebase.
C1_MissingFields400 ==
    [][\A body \in Bodies, write \in WriteOutcomes :
          (PostReportLogo(body, write)
             /\ (~Truthy(body.analysis) \/ ~Truthy(body.imageBase64)))
          => /\ Len(responses') = Len(responses) + 1
             /\ Last(responses').status = 400
             /\ Last(responses').error # ""
             /\ docs' = docs
             /\ nextDocId' = nextDocId
             /\ firebaseApp' = firebaseApp]_vars

\* A 400 has been sent by a server whose credentials are configured; nothing
\* was written and Firebase is uninitialised.
C1_Witness ==
    /\ responses # <<>>
    /\ Last(responses).status = 400
    /\ AllCredentialsPresent
    /\ firebaseApp = "null"
    /\ docs = <<>>

\* C2: a request carrying analysis and imageBase64, with the credentials
\* configured and the store write succeeding, appends exactly one document
\* holding the request's analysis, imageBase64 and mimeType, a server
\* timestamp and status 'pending_review', and is answered 200 with
\* success and the id of exactly that document; in every state the number of
\* documents equals the number of 200 responses.
C2_OneDocumentPer200 ==
    /\ [](Len(docs) = CountStatus(responses, 200))
    /\ [][\A body \in Bodies :
            (PostReportLogo(body, "ok")
               /\ Truthy(body.analysis) /\ Truthy(body.imageBase64)
               /\ AllCredentialsPresent)
            => /\ Len(docs') = Len(docs) + 1
               /\ SubSeq(docs', 1, Len(docs)) = docs
               /\ Last(docs').analysis = body.analysis
               /\ Last(docs').imageBase64 = body.imageBase64
               /\ Last(docs').mimeType = body.mimeType
               /\ Last(docs').reportedAt = "serverTimestamp"
               /\ Last(docs').status = "pending_review"
               /\ Last(responses').status = 200
               /\ Last(responses').success
               /\ Last(responses').reportId = Last(docs').id
               /\ \A i \in 1..Len(docs) : docs[i].id # Last(docs').id]_vars

\* Two reports were stored and acknowledged, between failures.
C2_Witness ==
    /\ Len(docs) = 2
    /\ Len(responses) = 3
    /\ Last(responses).status = 200
    /\ Last(responses).reportId = Last(docs).id

\* C3: with any of the three credentials absent, a request carrying both
\* required fields is answered 500 with an error body, writes no document and
\* leaves Firebase uninitialised (so the next such request fails the same
\* way); and a store write that throws is answered 500, never 200.
C3_Misconfigured500 ==
    /\ [](~AllCredentialsPresent => firebaseApp = "null")
    /\ [][\A body \in Bodies, write \in WriteOutcomes :
            (PostReportLogo(body, write)
               /\ Truthy(body.analysis) /\ Truthy(body.imageBase64))
            => /\ ~AllCredentialsPresent
                  => /\ Last(responses').status = 500
                     /\ Last(responses').error # ""
                     /\ docs' = docs
                     /\ firebaseApp' = "null"
               /\ write # "ok"
                  => /\ Last(responses').status = 500
                     /\ Last(responses').error # ""
                     /\ docs' = docs]_vars

\* Two requests in a row failed on the missing configuration, and a write
\* failure has been answered 500 as well.
C3_Witness ==
    /\ Len(responses) = 3
    /\ responses[1].status = 500
    /\ responses[1].error = "store write failed"
    /\ responses[2].status = 500
    /\ responses[3].status = 500
    /\ responses[3].error = "Firebase credentials are not fully configured in environment variables."
    /\ ~AllCredentialsPresent
    /\ firebaseApp = "null"
    /\ docs = <<>>

(* ---------------------------------------------------------------------- *)
(* Claims about the component                                              *)
(* ---------------------------------------------------------------------- *)
Range(seq) == {seq[i] : i \in 1..Len(seq)}
Occurrences(seq, x) == Cardinality({i \in 1..Len(seq) : seq[i] = x})

\* C4: no analysis is POSTed twice and no analysis is stored twice, under
\* any clicks on the report button; at most one report submission is
\* outstanding, and while one is, isReporting holds the button disabled.
C4_NoDuplicateReport ==
    /\ \A i, j \in 1..Len(postLog) :
          postLog[i].analysis.req = postLog[j].analysis.req => i = j
    /\ \A i, j \in 1..Len(docs) : docs[i].analysis = docs[j].analysis => i = j
    /\ Cardinality(reportReaders) + Cardinality(posts) <= 1
    /\ (mounted /\ reportReaders \cup posts # {}) => (isReporting /\ ReportDisabled)

\* Two analyses were reported, each stored once; the second is still on
\* screen with its report action disabled.
C4_Witness ==
    /\ mounted
    /\ Len(docs) = 2
    /\ Len(postLog) = 2
    /\ analysis # NoAnalysis
    /\ docs[2].analysis = Obj(analysis.req)
    /\ reportSuccess
    /\ ReportDisabled

\* A step in which a report submission fails: the file read fails, the
\* fetch rejects, or the server answers with an error status.
ReportFailureStep ==
    \/ \E r \in reportReaders : ReportReaderError(r)
    \/ \E p \in posts : FetchRejects(p)
    \/ \E p \in posts, write \in WriteOutcomes :
          FetchSettles(p, write) /\ ~ResponseOk(Last(responses'))

\* C5: whenever a report submission fails, the user is shown an error and
\* the report button is enabled again: error is non-null, isReporting and
\* reportSuccess are false.
C5_ReportFailureSurfaced ==
    [][(mounted /\ ReportFailureStep)
         => (error' # "null" /\ ~isReporting' /\ ~reportSuccess')]_vars

\* A step in which an analyze action fails.
AnalyzeFailureStep ==
    \/ \E r \in readers : ReaderError(r)
    \/ \E q \in inferences, outcome \in InferenceOutcomes \ {"json"} :
          InferenceSettles(q, outcome)

\* C6: every analyze action of the mounted component ends with isAnalyzing
\* false; a failed file read, a throwing inference call, an empty response
\* text and a response that is not JSON each set error, store no analysis
\* and issue no further inference request; no action's request is issued twice.
C6_AnalysisFailureTerminal ==
    /\ (mounted /\ isAnalyzing) ~> (~isAnalyzing \/ ~mounted)
    /\ [](\A a \in Range(inferenceLog) : Occurrences(inferenceLog, a) = 1)
    /\ [][(mounted /\ AnalyzeFailureStep)
            => /\ error' # "null"
               /\ ~isAnalyzing'
               /\ analysis' = analysis
               /\ inferenceLog' = inferenceLog
               /\ inferences' \subseteq inferences
               /\ readers' \subseteq readers]_vars

\* An analyze action has failed on an empty response: the error is shown,
\* nothing is stored and nothing is in flight.
C6_Witness ==
    /\ mounted
    /\ error = "No response from Gemini API"
    /\ ~isAnalyzing
    /\ analysis = NoAnalysis
    /\ inferenceLog = <<1>>
    /\ inferences = {}
    /\ readers = {}

\* C7: whenever the camera view is off, and after the component has
\* unmounted, every stream that startCamera acquired has been stopped.
C7_CameraReleased ==
    (~isCameraActive \/ ~mounted) => liveStreams = {}

\* C8: the toBlob callback of Take Photo leaves a selected file and a
\* preview, and the camera view closed.
C8_TakePhotoYieldsImage ==
    [][(mounted /\ isCameraActive /\ ToBlobCallback)
         => (selectedFile' # NoFile /\ previewUrl' # 0 /\ ~isCameraActive')]_vars

\* The tier a class name stands for.
TierOf(class) ==
    IF class \in {"text-emerald-600", "bg-emerald-50 border-emerald-100",
                  "CheckCircle text-emerald-600", "text-emerald-900", "text-emerald-700"}
    THEN "authentic"
    ELSE IF class \in {"text-amber-600", "bg-amber-50 border-amber-100",
                       "AlertTriangle text-amber-600", "text-amber-900", "text-amber-700"}
    THEN "caution"
    ELSE IF class \in {"text-red-600", "bg-red-50 border-red-100",
                       "ShieldAlert text-red-600", "text-red-900", "text-red-700"}
    THEN "suspicious"
    ELSE "none"

\* C9: the five tier-styled elements of a rendered report show one tier,
\* which is authentic iff s >= 90, caution iff 70 <= s < 90 and suspicious
\* iff s < 70.
C9_ScoreTiers ==
    rendered # NotRendered =>
        LET s == similarityPercentage
            t == TierOf(rendered.scoreText)
        IN /\ TierOf(rendered.box) = t
           /\ TierOf(rendered.icon) = t
           /\ TierOf(rendered.heading) = t
           /\ TierOf(rendered.body) = t
           /\ t = "authentic" <=> s >= 90
           /\ t = "caution" <=> (70 <= s /\ s < 90)
           /\ t = "suspicious" <=> s < 70

\* A report with score 90 is rendered, all in emerald.
C9_Witness ==
    /\ similarityPercentage = 90
    /\ rendered # NotRendered
    /\ TierOf(rendered.heading) = "authentic"
    /\ TierOf(rendered.scoreText) = "authentic"

\* C10 as stated: at most one inference request is in flight, and every
\* analyze action whose file read is over has issued exactly one request.
C10_ExactlyOneRequestPerAction ==
    /\ Cardinality(inferences) <= 1
    /\ \A a \in 1..(nextReq - 1) :
          (\A r \in readers : r.req # a) => Occurrences(inferenceLog, a) = 1

\* C10, amended: at most one analyze action is outstanding (reading or
\* requesting) and isAnalyzing holds the button disabled while it is; every
\* analyze action issues at most one inference request, none before its
\* file is read.
C10_ExclusiveAnalysis ==
    /\ Cardinality(readers) + Cardinality(inferences) <= 1
    /\ (mounted /\ readers \cup inferences # {}) => (isAnalyzing /\ AnalyzeDisabled)
    /\ \A a \in 1..(nextReq - 1) : Occurrences(inferenceLog, a) <= 1
    /\ \A r \in readers : r.req \notin Range(inferenceLog)
    /\ Range(inferenceLog) \subseteq 1..(nextReq - 1)

\* The first analyze action ended on a failed read without a request; the
\* second has its one request in flight.
C10_Witness ==
    /\ mounted
    /\ inferenceLog = <<2>>
    /\ Cardinality(inferences) = 1
    /\ isAnalyzing

\* C11: an inference request and a report submission are never outstanding
\* together, and isAnalyzing and isReporting are never both true.
C11_SingleOperationInFlight ==
    /\ ~(isAnalyzing /\ isReporting)
    /\ ~(readers \cup inferences # {} /\ reportReaders \cup posts # {})

\* C12: in every step of the mounted component that makes another image the
\* selected one (file picker, drop of an image, camera capture), no analysis
\* result is held afterwards.
C12_AnalysisDiscardedOnNewImage ==
    [][(mounted /\ selectedFile' # NoFile /\ selectedFile' # selectedFile)
         => analysis' = NoAnalysis]_vars

\* C13: an analysis held by the mounted component is the result of a request
\* made for the image now selected, and every report POSTed pairs an
\* analysis with the image it was made for.
C13_AnalysisMatchesSelectedImage ==
    /\ (mounted /\ analysis # NoAnalysis) => analysis.file = selectedFile.id
    /\ \A i \in 1..Len(postLog) : postLog[i].analysis.file = postLog[i].file

\* C14: when the mounted component displays an analysis with reportSuccess
\* true, a report holding that analysis and the selected image has been
\* stored.
C14_ReportFlagBelongsToAnalysis ==
    (mounted /\ analysis # NoAnalysis /\ reportSuccess)
        => \E i \in 1..Len(docs) :
              /\ docs[i].analysis = Obj(analysis.req)
              /\ docs[i].imageBase64 = DataUrl(selectedFile.id)

====
